---- MODULE Spec2Model ----
(***************************************************************************)
(* The tokenizer (parser/parsing.go: ParseTokens, readToken,               *)
(* readUntilFalse, checkBalance) and the tree renderer (generate) of       *)
(* govaluate-tool as state machines.                                       *)
(*                                                                         *)
(* A string is a sequence of one-character strings, so that a cursor can   *)
(* index it.  Every action of the tokenizer performs at most one operation *)
(* on the character stream (one readCharacter or one rewind) followed by   *)
(* the local computation up to the next stream operation, so a state       *)
(* invariant on `position` speaks of the cursor after every readCharacter  *)
(* and after every rewind.                                                 *)
(***************************************************************************)
EXTENDS Integers, Sequences, FiniteSets, TLC

VARIABLES
    text,           \* lexerStream.source: the expression, as characters
    functions,      \* the functions map handed to ParseTokens (its key set)
    position,       \* lexerStream.position
    pc,             \* the statement ParseTokens / readToken / readUntilFalse is at
    state,          \* ParseTokens' lexerState, named by its kind
    ret,            \* ParseTokens' ret: the tokens appended so far
    start,          \* readToken's position / ret.Start
    call,           \* the running readUntilFalse call: its caller and its parameters
    tokenBuffer,    \* readUntilFalse's tokenBuffer
    conditioned,    \* readUntilFalse's second result (completed, in readToken)
    kind,           \* readToken's kind
    tokenValue,     \* readToken's tokenValue
    tokenString,    \* readToken's tokenString
    outcome,        \* how the ParseTokens call ended: "none" while it runs
    err,            \* the error ParseTokens returned
    returned,       \* the token slice ParseTokens returned
    ast,            \* generate's ast argument
    indent,         \* generate's indent argument
    code            \* generate's result, once it has run

genVars == <<ast, indent, code>>
vars == <<text, functions, position, pc, state, ret, start, call, tokenBuffer,
          conditioned, kind, tokenValue, tokenString, outcome, err, returned,
          ast, indent, code>>

(***************************************************************************)
(* Bounds of the model.                                                    *)
(***************************************************************************)
\* Every expression over Alphabet of at most MaxLen characters is an input.
MaxLen == 3
\* generate is applied at every indent in 0..MaxIndent.
MaxIndent == 2
\* The trees handed to generate nest operators at most MaxDepth deep.
MaxDepth == 2

(***************************************************************************)
(* Characters (package unicode, restricted to ASCII).                      *)
(***************************************************************************)
LowerCase == <<"a", "b", "c", "d", "e", "f", "g", "h", "i", "j", "k", "l", "m",
               "n", "o", "p", "q", "r", "s", "t", "u", "v", "w", "x", "y", "z">>
UpperCase == <<"A", "B", "C", "D", "E", "F", "G", "H", "I", "J", "K", "L", "M",
               "N", "O", "P", "Q", "R", "S", "T", "U", "V", "W", "X", "Y", "Z">>
DecimalDigits == <<"0", "1", "2", "3", "4", "5", "6", "7", "8", "9">>

Range(s) == {s[i] : i \in DOMAIN s}
IndexIn(s, c) == CHOOSE i \in DOMAIN s : s[i] = c

IsLower(c) == c \in Range(LowerCase)
IsUpper(c) == c \in Range(UpperCase)
IsLetter(c) == IsLower(c) \/ IsUpper(c)
IsDigit(c) == c \in Range(DecimalDigits)
IsSpace(c) == c \in {" ", "\t", "\n", "\r", "\f"}
ToUpper(c) == IF IsLower(c) THEN UpperCase[IndexIn(LowerCase, c)] ELSE c
ToLower(c) == IF IsUpper(c) THEN LowerCase[IndexIn(UpperCase, c)] ELSE c
\* The rune 0 that getFirstRune returns for an empty string.
NUL == "\\0"

(***************************************************************************)
(* The character predicates of parsing.go.                                 *)
(***************************************************************************)
isHexDigit(character) ==
    LET c == ToLower(character)
    IN  IsDigit(c) \/ c \in {"a", "b", "c", "d", "e", "f"}

isNumeric(character) == IsDigit(character) \/ character = "."

isNotQuote(character) == character # "'" /\ character # "\""

isVariableName(character) ==
    \/ IsLetter(character)
    \/ IsDigit(character)
    \/ character = "_"
    \/ character = "."

isNotAlphanumeric(character) ==
    ~ (\/ IsDigit(character)
       \/ IsLetter(character)
       \/ character = "("
       \/ character = ")"
       \/ character = "["
       \/ character = "]"
       \/ ~ isNotQuote(character))

isNotClosingBracket(character) == character # "]"

\* The condition func(rune) bool handed to readUntilFalse, by name.
Holds(condition, character) ==
    CASE condition = "isHexDigit" -> isHexDigit(character)
      [] condition = "isNumeric" -> isNumeric(character)
      [] condition = "isVariableName" -> isVariableName(character)
      [] condition = "isNotQuote" -> isNotQuote(character)
      [] condition = "isNotClosingBracket" -> isNotClosingBracket(character)
      [] condition = "isNotAlphanumeric" -> isNotAlphanumeric(character)

getFirstRune(candidate) == IF Len(candidate) > 0 THEN candidate[1] ELSE NUL

(***************************************************************************)
(* The character stream.  lexerStream is not among the source files; it is *)
(* modelled from the specification (4.1): canRead tests for more input,    *)
(* readCharacter returns the character under the cursor and advances by    *)
(* one, rewind(n) moves the cursor back by n (forward when n is negative). *)
(***************************************************************************)
canRead(pos) == pos < Len(text)
readCharacter(pos) == text[pos + 1]
rewind(pos, amount) == pos - amount

(***************************************************************************)
(* Token kinds, symbol tables and lexer states.  TokenKind, the symbol     *)
(* tables and validLexerStates are not among the source files; they are    *)
(* modelled from the specification (4.2, 6, Glossary).  UNKNOWN is the     *)
(* zero value of TokenKind, the kind of the initial state.                 *)
(***************************************************************************)
UNKNOWN == "UNKNOWN"
PREFIX == "PREFIX"
NUMERIC == "NUMERIC"
BOOLEAN_KIND == "BOOLEAN"
STRING_KIND == "STRING"
TIME == "TIME"
VARIABLE_KIND == "VARIABLE"
FUNCTION == "FUNCTION"
ACCESSOR == "ACCESSOR"
SEPARATOR == "SEPARATOR"
COMPARATOR == "COMPARATOR"
LOGICALOP == "LOGICALOP"
MODIFIER == "MODIFIER"
CLAUSE == "CLAUSE"
CLAUSE_CLOSE == "CLAUSE_CLOSE"
TERNARY == "TERNARY"
ARRAY == "ARRAY"
\* VARIABLE, STRING and BOOLEAN are words of TLA+: those three kinds carry a suffix.

prefixSymbols == {<<"-">>, <<"!">>, <<"~">>}
modifierSymbols == {<<"+">>, <<"-">>, <<"*">>, <<"/">>, <<"%">>, <<"*", "*">>,
                    <<"&">>, <<"|">>, <<"^">>, <<">", ">">>, <<"<", "<">>}
logicalSymbols == {<<"&", "&">>, <<"|", "|">>}
comparatorSymbols == {<<"=", "=">>, <<"!", "=">>, <<">">>, <<">", "=">>, <<"<">>,
                      <<"<", "=">>, <<"=", "~">>, <<"!", "~">>}
ternarySymbols == {<<"?">>, <<":">>, <<"?", "?">>}

\* A state per token kind: the kinds that may follow a token of that kind.
\* An operand may start (PREFIX is a valid next kind) at the start of the
\* expression, after an opening parenthesis, after an operator and after a
\* separator.
validLexerStates == <<
    [kind |-> UNKNOWN,
     validNextKinds |-> {PREFIX, NUMERIC, BOOLEAN_KIND, VARIABLE_KIND, FUNCTION, ACCESSOR,
                         STRING_KIND, TIME, CLAUSE}],
    [kind |-> CLAUSE,
     validNextKinds |-> {PREFIX, NUMERIC, BOOLEAN_KIND, VARIABLE_KIND, FUNCTION, ACCESSOR,
                         STRING_KIND, TIME, CLAUSE, CLAUSE_CLOSE}],
    [kind |-> CLAUSE_CLOSE,
     validNextKinds |-> {COMPARATOR, MODIFIER, NUMERIC, BOOLEAN_KIND, VARIABLE_KIND, STRING_KIND,
                         TIME, CLAUSE, CLAUSE_CLOSE, LOGICALOP, TERNARY, SEPARATOR}],
    [kind |-> NUMERIC,
     validNextKinds |-> {MODIFIER, COMPARATOR, LOGICALOP, CLAUSE_CLOSE, TERNARY,
                         SEPARATOR}],
    [kind |-> BOOLEAN_KIND,
     validNextKinds |-> {MODIFIER, COMPARATOR, LOGICALOP, CLAUSE_CLOSE, TERNARY,
                         SEPARATOR}],
    [kind |-> STRING_KIND,
     validNextKinds |-> {MODIFIER, COMPARATOR, LOGICALOP, CLAUSE_CLOSE, TERNARY,
                         SEPARATOR}],
    [kind |-> TIME,
     validNextKinds |-> {MODIFIER, COMPARATOR, LOGICALOP, CLAUSE_CLOSE, SEPARATOR}],
    [kind |-> VARIABLE_KIND,
     validNextKinds |-> {MODIFIER, COMPARATOR, LOGICALOP, CLAUSE_CLOSE, TERNARY,
                         SEPARATOR}],
    [kind |-> MODIFIER,
     validNextKinds |-> {PREFIX, NUMERIC, VARIABLE_KIND, FUNCTION, ACCESSOR, STRING_KIND,
                         BOOLEAN_KIND, CLAUSE, CLAUSE_CLOSE}],
    [kind |-> COMPARATOR,
     validNextKinds |-> {PREFIX, NUMERIC, BOOLEAN_KIND, VARIABLE_KIND, FUNCTION, ACCESSOR,
                         STRING_KIND, TIME, CLAUSE, CLAUSE_CLOSE}],
    [kind |-> LOGICALOP,
     validNextKinds |-> {PREFIX, NUMERIC, BOOLEAN_KIND, VARIABLE_KIND, FUNCTION, ACCESSOR,
                         STRING_KIND, TIME, CLAUSE, CLAUSE_CLOSE}],
    [kind |-> PREFIX,
     validNextKinds |-> {NUMERIC, BOOLEAN_KIND, VARIABLE_KIND, FUNCTION, ACCESSOR, CLAUSE,
                         CLAUSE_CLOSE}],
    [kind |-> TERNARY,
     validNextKinds |-> {PREFIX, NUMERIC, BOOLEAN_KIND, STRING_KIND, TIME, VARIABLE_KIND,
                         FUNCTION, ACCESSOR, CLAUSE, SEPARATOR}],
    [kind |-> FUNCTION,
     validNextKinds |-> {CLAUSE}],
    [kind |-> ACCESSOR,
     validNextKinds |-> {CLAUSE, MODIFIER, COMPARATOR, LOGICALOP, CLAUSE_CLOSE,
                         TERNARY, SEPARATOR}],
    [kind |-> SEPARATOR,
     validNextKinds |-> {PREFIX, NUMERIC, BOOLEAN_KIND, STRING_KIND, TIME, VARIABLE_KIND,
                         FUNCTION, ACCESSOR, CLAUSE}] >>

canTransitionTo(lexerState, tokenKind) == tokenKind \in lexerState.validNextKinds

\* [found, state]: the first state of validLexerStates of that kind; the
\* error return carries validLexerStates[0].
getLexerStateForToken(tokenKind) ==
    LET hits == {i \in DOMAIN validLexerStates : validLexerStates[i].kind = tokenKind}
    IN  IF hits = {}
        THEN [found |-> FALSE, state |-> validLexerStates[1]]
        ELSE [found |-> TRUE,
              state |-> validLexerStates[CHOOSE i \in hits : \A j \in hits : i <= j]]

(***************************************************************************)
(* Strings (package strings).                                              *)
(***************************************************************************)
\* strings.Index for a one-character separator: 0-based, -1 when absent.
Index(s, c) ==
    IF \E i \in DOMAIN s : s[i] = c
    THEN (CHOOSE i \in DOMAIN s : s[i] = c /\ \A j \in 1..(i - 1) : s[j] # c) - 1
    ELSE -1

RECURSIVE Split(_, _)
Split(s, c) ==
    LET i == Index(s, c)
    IN  IF i < 0 THEN <<s>>
        ELSE <<SubSeq(s, 1, i)>> \o Split(SubSeq(s, i + 2, Len(s)), c)

(***************************************************************************)
(* Conversions (packages strconv and time).                                *)
(***************************************************************************)
DigitValue(c) == IndexIn(DecimalDigits, c) - 1
HexDigitValue(c) ==
    IF IsDigit(c) THEN DigitValue(c) ELSE 9 + IndexIn(LowerCase, ToLower(c))

RECURSIVE Horner(_, _, _)
Horner(s, base, acc) ==
    IF s = <<>> THEN acc
    ELSE Horner(Tail(s), base,
                acc * base + (IF base = 16 THEN HexDigitValue(Head(s))
                                           ELSE DigitValue(Head(s))))

RECURSIVE StripZeros(_)
StripZeros(s) == IF s # <<>> /\ Head(s) = "0" THEN StripZeros(Tail(s)) ELSE s

\* strconv.ParseUint(s, 16, 64): hexadecimal digits only, at least one, and a
\* value below 2^64 (at most 16 significant digits).
ParseUint16(s) ==
    IF /\ Len(s) > 0
       /\ \A i \in DOMAIN s : isHexDigit(s[i])
       /\ Len(StripZeros(s)) <= 16
    THEN [ok |-> TRUE, value |-> Horner(s, 16, 0)]
    ELSE [ok |-> FALSE, value |-> 0]

\* strconv.ParseFloat(s, 64) of an unsigned decimal: digits with at most one
\* point and at least one digit, then an optional exponent (e or E, an
\* optional sign, digits); an underscore may stand between two digits.  The
\* value is mant * 10^exp.  (The forms that need a sign, an "inf"/"nan" word
\* or a hexadecimal 'p' exponent are rejected here: a numeric token starts
\* with a digit or a point, and no expression of the model holds a 'p' or
\* an exponent beyond the range of a float64.)
ParseFloat(str) ==
    LET underscoresOk ==
            \A i \in DOMAIN str :
                str[i] = "_" => /\ 1 < i /\ i < Len(str)
                                /\ IsDigit(str[i - 1]) /\ IsDigit(str[i + 1])
        s == SelectSeq(str, LAMBDA c : c # "_")
        ePos == IF Index(s, "e") >= 0 THEN Index(s, "e") ELSE Index(s, "E")
        mantissa == IF ePos >= 0 THEN SubSeq(s, 1, ePos) ELSE s
        exponent == IF ePos >= 0 THEN SubSeq(s, ePos + 2, Len(s)) ELSE <<>>
        signed == exponent # <<>> /\ Head(exponent) \in {"+", "-"}
        expDigits == IF signed THEN Tail(exponent) ELSE exponent
        point == Index(mantissa, ".")
        digits == SelectSeq(mantissa, LAMBDA c : c # ".")
        fraction == IF point >= 0 THEN Len(mantissa) - point - 1 ELSE 0
        mantissaOk == /\ \A i \in DOMAIN mantissa : isNumeric(mantissa[i])
                      /\ Len(digits) > 0
                      /\ Len(mantissa) - Len(digits) <= 1
        exponentOk == \/ ePos < 0
                      \/ /\ Len(expDigits) > 0
                         /\ \A i \in DOMAIN expDigits : IsDigit(expDigits[i])
        expValue == IF ePos < 0 THEN 0
                    ELSE IF signed /\ Head(exponent) = "-"
                         THEN 0 - Horner(expDigits, 10, 0)
                         ELSE Horner(expDigits, 10, 0)
    IN  IF underscoresOk /\ mantissaOk /\ exponentOk
        THEN [ok |-> TRUE, mant |-> Horner(digits, 10, 0), exp |-> expValue - fraction]
        ELSE [ok |-> FALSE, mant |-> 0, exp |-> 0]

IsLeapYear(y) == (y % 4 = 0 /\ y % 100 # 0) \/ y % 400 = 0
DaysIn(m, y) ==
    IF m = 2 THEN (IF IsLeapYear(y) THEN 29 ELSE 28)
    ELSE IF m \in {4, 6, 9, 11} THEN 30 ELSE 31

\* time.ParseInLocation("2006-01-02", candidate, time.Local): four digits, two
\* digits and two digits between hyphens, naming a day of the calendar.
tryParseExactDate(candidate) ==
    LET shaped == /\ Len(candidate) = 10
                  /\ candidate[5] = "-" /\ candidate[8] = "-"
                  /\ \A i \in {1, 2, 3, 4, 6, 7, 9, 10} : IsDigit(candidate[i])
        y == Horner(SubSeq(candidate, 1, 4), 10, 0)
        m == Horner(SubSeq(candidate, 6, 7), 10, 0)
        d == Horner(SubSeq(candidate, 9, 10), 10, 0)
    IN  IF shaped /\ m \in 1..12 /\ d \in 1..DaysIn(m, y)
        THEN [found |-> TRUE, year |-> y, month |-> m, day |-> d]
        ELSE [found |-> FALSE, year |-> 0, month |-> 0, day |-> 0]

\* tryParseTime tries fourteen layouts in order.  Every layout but
\* "2006-01-02" needs a ':' or a 'T' in the candidate, so a candidate with
\* neither can match that one layout only; a candidate that has one is taken
\* as matching no layout, and no expression of the model holds either.
tryParseTime(candidate) ==
    IF \E i \in DOMAIN candidate : candidate[i] \in {":", "T"}
    THEN [found |-> FALSE, year |-> 0, month |-> 0, day |-> 0]
    ELSE tryParseExactDate(candidate)

(***************************************************************************)
(* Token values.  ExpressionToken.Value is an interface{}; the model tags  *)
(* each value with its dynamic type.                                       *)
(***************************************************************************)
NilValue == [type |-> "nil"]
StringValue(s) == [type |-> "string", v |-> s]
BoolValue(b) == [type |-> "bool", v |-> b]
FloatValue(m, e) == [type |-> "float64", mant |-> m, exp |-> e]
RuneValue(c) == [type |-> "rune", v |-> c]
SplitsValue(ss) == [type |-> "[]string", v |-> ss]
FunctionValue(name) == [type |-> "ExpressionFunction", v |-> name]
TimeValue(t) == [type |-> "time.Time", year |-> t.year, month |-> t.month, day |-> t.day]

NoError == [msg |-> "", arg |-> <<>>]
Error(m, a) == [msg |-> m, arg |-> a]

(***************************************************************************)
(* readToken, the pure parts.                                              *)
(***************************************************************************)
\* The token readToken returns.  A mutant that never sets End:
ExpressionTokenNoEnd(k, v, raw, s, e) ==
    [Kind |-> k, Value |-> v, Raw |-> raw, Start |-> s, End |-> 0]

ExpressionToken(k, v, raw, s, e) ==
    [Kind |-> k, Value |-> v, Raw |-> raw, Start |-> s, End |-> e]

\* The hexadecimal constant read after "0x".
hexToken(tokenStr) ==
    LET parsed == ParseUint16(tokenStr)
    IN  IF ~ parsed.ok
        THEN [err |-> Error("Unable to parse hex value to uint64", tokenStr),
              kind |-> UNKNOWN, value |-> NilValue]
        ELSE [err |-> NoError, kind |-> NUMERIC, value |-> FloatValue(parsed.value, 0)]

\* The numeric constant.
numericToken(tokenStr) ==
    LET parsed == ParseFloat(tokenStr)
    IN  IF ~ parsed.ok
        THEN [err |-> Error("Unable to parse numeric value to float64", tokenStr),
              kind |-> UNKNOWN, value |-> NilValue]
        ELSE [err |-> NoError, kind |-> NUMERIC,
              value |-> FloatValue(parsed.mant, parsed.exp)]

\* The regular variable: a boolean, the textual operator, a function or an
\* accessor, each test overriding the ones before it.
variableToken(tokenStr, fns) ==
    LET isTrue == tokenStr = <<"t", "r", "u", "e">>
        isFalse == tokenStr = <<"f", "a", "l", "s", "e">>
        kind1 == IF isTrue \/ isFalse THEN BOOLEAN_KIND ELSE VARIABLE_KIND
        value1 == IF isTrue THEN BoolValue(TRUE)
                  ELSE IF isFalse THEN BoolValue(FALSE) ELSE StringValue(tokenStr)
        isIn == tokenStr = <<"i", "n">> \/ tokenStr = <<"I", "N">>
        kind2 == IF isIn THEN COMPARATOR ELSE kind1
        value2 == IF isIn THEN StringValue(<<"i", "n">>) ELSE value1
        found == tokenStr \in fns
        kind3 == IF found THEN FUNCTION ELSE kind2
        value3 == IF found THEN FunctionValue(tokenStr) ELSE value2
        accessorIndex == Index(tokenStr, ".")
        splits == Split(tokenStr, ".")
        unexported == {i \in 2..Len(splits) :
                         ToUpper(getFirstRune(splits[i])) # getFirstRune(splits[i])}
    IN  IF accessorIndex > 0
        THEN IF tokenStr[Len(tokenStr)] = "."
             THEN [err |-> Error("Hanging accessor on token", tokenStr),
                   kind |-> kind3, value |-> value3]
             ELSE IF unexported # {}
             THEN [err |-> Error("Unable to access unexported field in token", tokenStr),
                   kind |-> ACCESSOR, value |-> SplitsValue(splits)]
             ELSE [err |-> NoError, kind |-> ACCESSOR, value |-> SplitsValue(splits)]
        ELSE [err |-> NoError, kind |-> kind3, value |-> value3]

\* The quoted literal: a time when it parses as one, a string otherwise.
quotedToken(tokenStr) ==
    LET parsed == tryParseTime(tokenStr)
    IN  IF parsed.found
        THEN [err |-> NoError, kind |-> TIME, value |-> TimeValue(parsed)]
        ELSE [err |-> NoError, kind |-> STRING_KIND, value |-> StringValue(tokenStr)]

\* The known symbol.  A mutant that looks the modifier table up before the
\* prefix table:
symbolTokenModifierFirst(lexerState, tokenStr) ==
    IF tokenStr \in modifierSymbols
    THEN [err |-> NoError, kind |-> MODIFIER, value |-> StringValue(tokenStr)]
    ELSE IF canTransitionTo(lexerState, PREFIX) /\ tokenStr \in prefixSymbols
    THEN [err |-> NoError, kind |-> PREFIX, value |-> StringValue(tokenStr)]
    ELSE IF tokenStr \in logicalSymbols
    THEN [err |-> NoError, kind |-> LOGICALOP, value |-> StringValue(tokenStr)]
    ELSE IF tokenStr \in comparatorSymbols
    THEN [err |-> NoError, kind |-> COMPARATOR, value |-> StringValue(tokenStr)]
    ELSE IF tokenStr \in ternarySymbols
    THEN [err |-> NoError, kind |-> TERNARY, value |-> StringValue(tokenStr)]
    ELSE [err |-> Error("Invalid token", tokenStr),
          kind |-> UNKNOWN, value |-> StringValue(tokenStr)]

symbolToken(lexerState, tokenStr) ==
    IF canTransitionTo(lexerState, PREFIX) /\ tokenStr \in prefixSymbols
    THEN [err |-> NoError, kind |-> PREFIX, value |-> StringValue(tokenStr)]
    ELSE IF tokenStr \in modifierSymbols
    THEN [err |-> NoError, kind |-> MODIFIER, value |-> StringValue(tokenStr)]
    ELSE IF tokenStr \in logicalSymbols
    THEN [err |-> NoError, kind |-> LOGICALOP, value |-> StringValue(tokenStr)]
    ELSE IF tokenStr \in comparatorSymbols
    THEN [err |-> NoError, kind |-> COMPARATOR, value |-> StringValue(tokenStr)]
    ELSE IF tokenStr \in ternarySymbols
    THEN [err |-> NoError, kind |-> TERNARY, value |-> StringValue(tokenStr)]
    ELSE [err |-> Error("Invalid token", tokenStr),
          kind |-> UNKNOWN, value |-> StringValue(tokenStr)]

(***************************************************************************)
(* checkBalance: the running count of open parentheses over the tokens.    *)
(***************************************************************************)
RECURSIVE countParens(_, _)
countParens(tokens, parens) ==
    IF tokens = <<>> THEN parens
    ELSE countParens(Tail(tokens),
                     IF Head(tokens).Kind = CLAUSE THEN parens + 1
                     ELSE IF Head(tokens).Kind = CLAUSE_CLOSE THEN parens - 1
                     ELSE parens)

\* A mutant that reports only a close without an open:
checkBalanceNegativeOnly(tokens) ==
    IF countParens(tokens, 0) < 0 THEN Error("Unbalanced parenthesis", <<>>) ELSE NoError

checkBalance(tokens) ==
    IF countParens(tokens, 0) # 0 THEN Error("Unbalanced parenthesis", <<>>) ELSE NoError

(***************************************************************************)
(* The inputs of ParseTokens.                                              *)
(***************************************************************************)
\* One character of each class the tokenizer tells apart: digits (0 leads a
\* hexadecimal constant), a lower-case letter (x, of "0x"), an upper-case
\* letter (B, a hexadecimal digit too), the point, the underscore, a symbol
\* that is a prefix and a modifier, the parentheses, the brackets, both
\* quotes, the escape character, white space and the separator.
Alphabet == {"0", "1", "x", "B", ".", "_", "-", "(", ")", "[", "]", "'", "\"",
             "\\", " ", ","}

\* The expressions the specification names, and a few of their kin.
Examples == {
    <<"1", " ", "-", " ", "1">>,
    <<"-", "1", "-", "1">>,
    <<"1", " ", "+", " ", "2">>,
    <<"(", "1", " ", "+", " ", "2">>,
    <<"(", "1", " ", "+", " ", "2", ")">>,
    <<"f", "o", "o", ".", "B", "a", "r">>,
    <<"f", "o", "o", ".", "b", "a", "r">>,
    <<"f", "o", "o", ".">>,
    <<"i", "n">>, <<"I", "N">>, <<"I", "n">>, <<"i", "N">>,
    <<"1", " ", "i", "N", " ", "x">>,
    <<"t", "r", "u", "e">>, <<"f", "a", "l", "s", "e">>,
    <<"0", "x", "F", "F">>,
    <<"1", "\\", "e", "1">>,
    <<"1", " ", "@">>,
    <<"x", "&", "&", "!", "x">>,
    <<"x", "?", "1", ":", "0">>,
    <<"1", "=", "=", "1">>,
    <<"'", "n", "o", "t", " ", "a", " ", "d", "a", "t", "e", "'">>,
    <<"'", "2", "0", "2", "3", "-", "0", "1", "-", "0", "2", "'">>,
    <<"'", "2", "0", "2", "3", "-", "0", "2", "-", "3", "0", "'">>,
    <<" ", " ", " ", " ">> }

Inputs == UNION {[1..n -> Alphabet] : n \in 0..MaxLen} \cup Examples

\* The function maps: none registered, or one named "x" and one named "in".
FunctionMaps == {{}, {<<"x">>, <<"i", "n">>}}

\* A tree that stands for "generate is not running".
NoTree == [Token |-> [Kind |-> UNKNOWN, Content |-> "", Value |-> [type |-> "nil"]],
           Children |-> <<>>]

(***************************************************************************)
(* ParseTokens.                                                            *)
(***************************************************************************)
\* The parameters of a readUntilFalse call and the branch of readToken it
\* returns to.
Call(from, includeWhitespace, breakWhitespace, allowEscaping, condition) ==
    [from |-> from, includeWhitespace |-> includeWhitespace,
     breakWhitespace |-> breakWhitespace, allowEscaping |-> allowEscaping,
     condition |-> condition]
NoCall == Call("none", FALSE, FALSE, FALSE, "none")

Init ==
    /\ text \in Inputs
    /\ functions \in FunctionMaps
    /\ position = 0
    /\ pc = "ParseTokens"
    /\ state = validLexerStates[1]
    /\ ret = <<>>
    /\ start = 0
    /\ call = NoCall
    /\ tokenBuffer = <<>>
    /\ conditioned = FALSE
    /\ kind = UNKNOWN
    /\ tokenValue = NilValue
    /\ tokenString = <<>>
    /\ outcome = "none"
    /\ err = NoError
    /\ returned = <<>>
    /\ ast = NoTree
    /\ indent = 0
    /\ code = ""

\* return ret, err: the tokens appended so far go back with the error.
ReturnError(e) ==
    /\ pc' = "done"
    /\ outcome' = "error"
    /\ err' = e
    /\ returned' = ret

\* The specification leaves a readCharacter with nothing left to read
\* undefined.  A Go program that indexes its characters past their end
\* panics, and the model takes that outcome: the call ends with neither
\* tokens nor an error.
Panic ==
    /\ pc' = "done"
    /\ outcome' = "panic"
    /\ UNCHANGED <<err, returned>>

Running == UNCHANGED <<outcome, err, returned>>

\* for stream.canRead() { token, err, found = readToken(...)
ParseLoop ==
    /\ pc = "ParseTokens"
    /\ IF canRead(position)
       THEN /\ pc' = "readToken"
            /\ kind' = UNKNOWN
            /\ tokenValue' = NilValue
            /\ tokenString' = <<>>
            /\ start' = 0
       ELSE /\ pc' = "checkBalance"
            /\ UNCHANGED <<kind, tokenValue, tokenString, start>>
    /\ Running
    /\ UNCHANGED <<text, functions, position, state, ret, call, tokenBuffer, conditioned>>
    /\ UNCHANGED genVars

\* readToken's loop has run out of characters: kind is still UNKNOWN.
ReadTokenEnd ==
    /\ pc = "readToken"
    /\ ~ canRead(position)
    /\ pc' = "return"
    /\ Running
    /\ UNCHANGED <<text, functions, position, state, ret, start, call, tokenBuffer,
                   conditioned, kind, tokenValue, tokenString>>
    /\ UNCHANGED genVars

\* readToken reads the character that leads the token and picks its branch.
ReadTokenCharacter ==
    /\ pc = "readToken"
    /\ canRead(position)
    /\ LET character == readCharacter(position)
           after == position + 1
       IN  /\ position' = after
           /\ start' = position
           /\ IF IsSpace(character)
              THEN /\ pc' = "readToken"
                   /\ UNCHANGED <<call, kind, tokenValue, tokenString>>
              ELSE IF isNumeric(character)
              THEN /\ pc' = IF canRead(after) /\ character = "0"
                            THEN "hexPeek" ELSE "readTokenUntilFalse"
                   /\ call' = Call("numeric", FALSE, TRUE, TRUE, "isNumeric")
                   /\ kind' = UNKNOWN
                   /\ UNCHANGED <<tokenValue, tokenString>>
              ELSE IF character = ","
              THEN /\ pc' = "return"
                   /\ kind' = SEPARATOR
                   /\ tokenValue' = StringValue(<<",">>)
                   /\ tokenString' = <<",">>
                   /\ UNCHANGED call
              ELSE IF character = "["
              THEN /\ pc' = "readUntilFalse"
                   /\ call' = Call("bracket", TRUE, FALSE, TRUE, "isNotClosingBracket")
                   /\ kind' = UNKNOWN
                   /\ UNCHANGED <<tokenValue, tokenString>>
              ELSE IF IsLetter(character)
              THEN /\ pc' = "readTokenUntilFalse"
                   /\ call' = Call("variable", FALSE, TRUE, TRUE, "isVariableName")
                   /\ kind' = UNKNOWN
                   /\ UNCHANGED <<tokenValue, tokenString>>
              ELSE IF ~ isNotQuote(character)
              THEN /\ pc' = "readUntilFalse"
                   /\ call' = Call("quote", TRUE, FALSE, TRUE, "isNotQuote")
                   /\ kind' = UNKNOWN
                   /\ UNCHANGED <<tokenValue, tokenString>>
              ELSE IF character = "("
              THEN /\ pc' = "return"
                   /\ kind' = CLAUSE
                   /\ tokenValue' = RuneValue(character)
                   /\ tokenString' = <<"(">>
                   /\ UNCHANGED call
              ELSE IF character = ")"
              THEN /\ pc' = "return"
                   /\ kind' = CLAUSE_CLOSE
                   /\ tokenValue' = RuneValue(character)
                   /\ tokenString' = <<")">>
                   /\ UNCHANGED call
              ELSE /\ pc' = "readTokenUntilFalse"
                   /\ call' = Call("symbol", FALSE, TRUE, TRUE, "isNotAlphanumeric")
                   /\ kind' = UNKNOWN
                   /\ UNCHANGED <<tokenValue, tokenString>>
    /\ tokenBuffer' = <<>>
    /\ conditioned' = FALSE
    /\ Running
    /\ UNCHANGED <<text, functions, state, ret>>
    /\ UNCHANGED genVars

\* After a leading 0 with more to read: character = stream.readCharacter(), and
\* an x with more to read after it starts the hexadecimal scan.
HexPeek ==
    /\ pc = "hexPeek"
    /\ IF canRead(position)
       THEN /\ position' = position + 1
            /\ IF canRead(position + 1) /\ readCharacter(position) = "x"
               THEN /\ pc' = "readUntilFalse"
                    /\ call' = Call("hex", FALSE, TRUE, TRUE, "isHexDigit")
               ELSE /\ pc' = "hexRewind"
                    /\ UNCHANGED call
            /\ Running
       ELSE /\ Panic
            /\ UNCHANGED <<position, call>>
    /\ UNCHANGED <<text, functions, state, ret, start, tokenBuffer, conditioned,
                   kind, tokenValue, tokenString>>
    /\ UNCHANGED genVars

\* Not a hexadecimal constant: stream.rewind(1) gives the peeked character back.
HexRewind ==
    /\ pc = "hexRewind"
    /\ position' = rewind(position, 1)
    /\ pc' = "readTokenUntilFalse"
    /\ Running
    /\ UNCHANGED <<text, functions, state, ret, start, call, tokenBuffer, conditioned,
                   kind, tokenValue, tokenString>>
    /\ UNCHANGED genVars

\* readTokenUntilFalse: stream.rewind(1) gives the leading character back, then
\* readUntilFalse(stream, false, true, true, condition).
ReadTokenUntilFalse ==
    /\ pc = "readTokenUntilFalse"
    /\ position' = rewind(position, 1)
    /\ pc' = "readUntilFalse"
    /\ Running
    /\ UNCHANGED <<text, functions, state, ret, start, call, tokenBuffer, conditioned,
                   kind, tokenValue, tokenString>>
    /\ UNCHANGED genVars

\* One turn of readUntilFalse's loop, up to its next stream operation.
ReadUntilFalse ==
    /\ pc = "readUntilFalse"
    /\ IF ~ canRead(position)
       THEN /\ pc' = "scanned"
            /\ UNCHANGED <<position, tokenBuffer, conditioned>>
       ELSE LET character == readCharacter(position)
            IN  /\ position' = position + 1
                /\ IF call.allowEscaping /\ character = "\\"
                   THEN /\ pc' = "escape"
                        /\ UNCHANGED <<tokenBuffer, conditioned>>
                   ELSE IF IsSpace(character) /\ call.breakWhitespace
                           /\ Len(tokenBuffer) > 0
                   THEN /\ pc' = "scanned"
                        /\ conditioned' = TRUE
                        /\ UNCHANGED tokenBuffer
                   ELSE IF IsSpace(character) /\ ~ call.includeWhitespace
                   THEN /\ pc' = "readUntilFalse"
                        /\ UNCHANGED <<tokenBuffer, conditioned>>
                   ELSE IF Holds(call.condition, character)
                   THEN /\ pc' = "readUntilFalse"
                        /\ tokenBuffer' = Append(tokenBuffer, character)
                        /\ UNCHANGED conditioned
                   ELSE /\ pc' = "untilFalseRewind"
                        /\ conditioned' = TRUE
                        /\ UNCHANGED tokenBuffer
    /\ Running
    /\ UNCHANGED <<text, functions, state, ret, start, call, kind, tokenValue,
                   tokenString>>
    /\ UNCHANGED genVars

\* After a backslash: character = stream.readCharacter(), unguarded, and the
\* character goes to the buffer whatever it is.
Escape ==
    /\ pc = "escape"
    /\ IF canRead(position)
       THEN /\ position' = position + 1
            /\ tokenBuffer' = Append(tokenBuffer, readCharacter(position))
            /\ pc' = "readUntilFalse"
            /\ Running
       ELSE /\ Panic
            /\ UNCHANGED <<position, tokenBuffer>>
    /\ UNCHANGED <<text, functions, state, ret, start, call, conditioned, kind,
                   tokenValue, tokenString>>
    /\ UNCHANGED genVars

\* The condition failed: stream.rewind(1) gives the character back.
UntilFalseRewind ==
    /\ pc = "untilFalseRewind"
    /\ position' = rewind(position, 1)
    /\ pc' = "scanned"
    /\ Running
    /\ UNCHANGED <<text, functions, state, ret, start, call, tokenBuffer, conditioned,
                   kind, tokenValue, tokenString>>
    /\ UNCHANGED genVars

\* readUntilFalse has returned into readToken's branch.
Scanned ==
    /\ pc = "scanned"
    /\ LET token ==
               CASE call.from = "hex" -> hexToken(tokenBuffer)
                 [] call.from = "numeric" -> numericToken(tokenBuffer)
                 [] call.from = "variable" -> variableToken(tokenBuffer, functions)
                 [] call.from = "symbol" -> symbolToken(state, tokenBuffer)
                 [] call.from = "bracket" ->
                        IF conditioned
                        THEN [err |-> NoError, kind |-> VARIABLE_KIND,
                              value |-> StringValue(tokenBuffer)]
                        ELSE [err |-> Error("Unclosed parameter bracket", <<>>),
                              kind |-> VARIABLE_KIND, value |-> StringValue(tokenBuffer)]
                 [] call.from = "quote" ->
                        IF conditioned
                        THEN [err |-> NoError, kind |-> UNKNOWN,
                              value |-> StringValue(tokenBuffer)]
                        ELSE [err |-> Error("Unclosed string literal", <<>>),
                              kind |-> UNKNOWN, value |-> StringValue(tokenBuffer)]
       IN  /\ tokenString' = tokenBuffer
           /\ kind' = token.kind
           /\ tokenValue' = token.value
           /\ IF token.err # NoError
              THEN ReturnError(token.err)
              ELSE /\ pc' = IF call.from \in {"bracket", "quote"}
                            THEN "skipTerminator" ELSE "return"
                   /\ Running
    /\ UNCHANGED <<text, functions, position, state, ret, start, call, tokenBuffer,
                   conditioned>>
    /\ UNCHANGED genVars

\* stream.rewind(-1) steps over the closing bracket or quote; a quoted
\* literal then becomes a TIME or a STRING.
SkipTerminator ==
    /\ pc = "skipTerminator"
    /\ position' = rewind(position, -1)
    /\ IF call.from = "quote"
       THEN /\ kind' = quotedToken(tokenString).kind
            /\ tokenValue' = quotedToken(tokenString).value
       ELSE UNCHANGED <<kind, tokenValue>>
    /\ pc' = "return"
    /\ Running
    /\ UNCHANGED <<text, functions, state, ret, start, call, tokenBuffer, conditioned,
                   tokenString>>
    /\ UNCHANGED genVars

\* readToken returns (ret, nil, kind != UNKNOWN); ParseTokens leaves its loop
\* when nothing was found, and else looks the next state up and appends.
ReturnToken ==
    /\ pc = "return"
    /\ LET token == ExpressionToken(kind, tokenValue, tokenString, start, position)
           found == kind # UNKNOWN
           next == getLexerStateForToken(kind)
       IN  IF ~ found
           THEN /\ pc' = "checkBalance"
                /\ Running
                /\ UNCHANGED <<state, ret>>
           ELSE IF ~ next.found
           THEN /\ ReturnError(Error("No lexer state found for token kind", <<>>))
                /\ state' = next.state
                /\ UNCHANGED ret
           ELSE /\ pc' = "ParseTokens"
                /\ state' = next.state
                /\ ret' = Append(ret, token)
                /\ Running
    /\ UNCHANGED <<text, functions, position, start, call, tokenBuffer, conditioned,
                   kind, tokenValue, tokenString>>
    /\ UNCHANGED genVars

\* err = checkBalance(ret): return nil, err or return ret, nil.
CheckBalance ==
    /\ pc = "checkBalance"
    /\ pc' = "done"
    /\ IF checkBalance(ret) # NoError
       THEN /\ outcome' = "error"
            /\ err' = checkBalance(ret)
            /\ returned' = <<>>
       ELSE /\ outcome' = "ok"
            /\ err' = NoError
            /\ returned' = ret
    /\ UNCHANGED <<text, functions, position, state, ret, start, call, tokenBuffer,
                   conditioned, kind, tokenValue, tokenString>>
    /\ UNCHANGED genVars

Next ==
    \/ ParseLoop
    \/ ReadTokenEnd
    \/ ReadTokenCharacter
    \/ HexPeek
    \/ HexRewind
    \/ ReadTokenUntilFalse
    \/ ReadUntilFalse
    \/ Escape
    \/ UntilFalseRewind
    \/ Scanned
    \/ SkipTerminator
    \/ ReturnToken
    \/ CheckBalance

Spec == Init /\ [][Next]_vars

\* ParseTokens runs on one goroutine with nothing to wait for: a step that
\* can be taken is taken.
FairSpec == Spec /\ WF_vars(Next)

(***************************************************************************)
(* The tree renderer: generate(ast, indent).  An ASTNode is a token (Kind, *)
(* Content, Value) and its Children.                                       *)
(***************************************************************************)
ASTNode(k, content, value, children) ==
    [Token |-> [Kind |-> k, Content |-> content, Value |-> value],
     Children |-> children]

\* strings.Repeat
RECURSIVE Repeat(_, _)
Repeat(s, count) == IF count <= 0 THEN "" ELSE s \o Repeat(s, count - 1)

\* strings.Join
RECURSIVE Join(_, _)
Join(elems, sep) ==
    IF elems = <<>> THEN ""
    ELSE IF Len(elems) = 1 THEN elems[1]
    ELSE elems[1] \o sep \o Join(Tail(elems), sep)

\* fmt.Sprintf("%v", value): a string is printed as it is, a whole number in
\* decimal.
FormatValue(value) ==
    IF value.type = "string" THEN value.v
    ELSE IF value.type = "float64" THEN ToString(value.v)
    ELSE "<nil>"

RECURSIVE generate(_, _)
generate(node, ind) ==
    LET indentStr == Repeat("  ", ind)
        token == node.Token
        children == node.Children
    IN  CASE token.Kind = LOGICALOP ->
                LET text1 == generate(children[1], ind + 1) \o "\n" \o indentStr
                                 \o token.Content \o "\n" \o indentStr
                                 \o generate(children[2], ind + 1) \o " " \o indentStr
                IN  IF ind > 0
                    THEN "(\n" \o indentStr \o text1 \o "\n" \o indentStr \o ")"
                    ELSE text1
          [] token.Kind = COMPARATOR ->
                generate(children[1], ind + 1) \o " " \o token.Content \o " "
                    \o generate(children[2], ind + 1)
          [] token.Kind = PREFIX ->
                token.Content \o "(" \o generate(children[1], ind + 1) \o indentStr \o ")"
          [] token.Kind = FUNCTION ->
                token.Content \o "( "
                    \o Join([i \in DOMAIN children |-> generate(children[i], 0)], ", ")
                    \o " )"
          [] token.Kind \in {VARIABLE_KIND, STRING_KIND, NUMERIC} ->
                FormatValue(token.Value)
          [] token.Kind = ARRAY ->
                "( "
                    \o Join([i \in DOMAIN children |-> generate(children[i], ind + 1)], ", ")
                    \o " )"
          [] OTHER -> ""

\* The trees generate is applied to: the terminals, a node of a kind generate
\* does not know, and every operator over smaller trees.
Terminals == {
    ASTNode(VARIABLE_KIND, "a", [type |-> "string", v |-> "a"], <<>>),
    ASTNode(STRING_KIND, "'s'", [type |-> "string", v |-> "s"], <<>>),
    ASTNode(NUMERIC, "1", [type |-> "float64", v |-> 1], <<>>),
    ASTNode(BOOLEAN_KIND, "true", [type |-> "bool", v |-> TRUE], <<>>) }

RECURSIVE Trees(_)
Trees(depth) ==
    IF depth = 0 THEN Terminals
    ELSE LET sub == Trees(depth - 1)
             nil == [type |-> "nil"]
         IN  sub
             \cup {ASTNode(PREFIX, "!", nil, <<c>>) : c \in sub}
             \cup {ASTNode(COMPARATOR, "==", nil, <<l, r>>) : l \in sub, r \in Terminals}
             \cup {ASTNode(LOGICALOP, "&&", nil, <<l, r>>) : l \in Terminals, r \in sub}
             \cup {ASTNode(FUNCTION, "f", nil, <<>>)}
             \cup {ASTNode(FUNCTION, "f", nil, <<c>>) : c \in sub}
             \cup {ASTNode(FUNCTION, "f", nil, <<l, c>>) : l \in Terminals, c \in sub}
             \cup {ASTNode(ARRAY, "", nil, <<c>>) : c \in sub}
             \cup {ASTNode(ARRAY, "", nil, <<c, r>>) : c \in sub, r \in Terminals}

GenInit ==
    /\ ast \in Trees(MaxDepth)
    /\ indent \in 0..MaxIndent
    /\ code = ""
    /\ pc = "generate"
    /\ text = <<>>
    /\ functions = {}
    /\ position = 0
    /\ state = validLexerStates[1]
    /\ ret = <<>>
    /\ start = 0
    /\ call = NoCall
    /\ tokenBuffer = <<>>
    /\ conditioned = FALSE
    /\ kind = UNKNOWN
    /\ tokenValue = NilValue
    /\ tokenString = <<>>
    /\ outcome = "none"
    /\ err = NoError
    /\ returned = <<>>

Generate ==
    /\ pc = "generate"
    /\ code' = generate(ast, indent)
    /\ pc' = "generated"
    /\ UNCHANGED <<ast, indent>>
    /\ UNCHANGED <<text, functions, position, state, ret, start, call, tokenBuffer,
                   conditioned, kind, tokenValue, tokenString, outcome, err, returned>>

GenNext == Generate

GenSpec == GenInit /\ [][GenNext]_vars

(***************************************************************************)
(* Properties.                                                             *)
(***************************************************************************)
\* The character that led token tok of the expression.
Lead(tok) == text[tok.Start + 1]

\* A token read by readToken's last branch ("must be a known symbol"): its
\* leading character chose none of the branches before it.
LedBySymbol(tok) ==
    LET c == Lead(tok)
    IN  /\ ~ IsSpace(c) /\ ~ isNumeric(c) /\ c # "," /\ c # "[" /\ ~ IsLetter(c)
        /\ isNotQuote(c) /\ c # "(" /\ c # ")"

\* The lexer state ParseTokens holds when it reads its i-th token.
StateBefore(tokens, i) ==
    IF i = 1 THEN validLexerStates[1]
    ELSE getLexerStateForToken(tokens[i - 1].Kind).state

NumberOfKind(tokens, k) == Cardinality({i \in DOMAIN tokens : tokens[i].Kind = k})
KindsOf(tokens) == [i \in DOMAIN tokens |-> tokens[i].Kind]

\* C1: a symbol run that is both a prefix symbol and a modifier symbol is
\* emitted as PREFIX when the state derived from the token before it (the
\* initial state for the first token) can transition to PREFIX and as MODIFIER
\* otherwise, and is never refused as an invalid token; "-1" yields PREFIX,
\* NUMERIC and "1 - 1" yields NUMERIC, MODIFIER, NUMERIC.
C1_PrefixBeforeModifier ==
    /\ \A i \in DOMAIN ret :
          (LedBySymbol(ret[i]) /\ ret[i].Raw \in prefixSymbols \cap modifierSymbols)
          => ret[i].Kind = IF canTransitionTo(StateBefore(ret, i), PREFIX)
                           THEN PREFIX ELSE MODIFIER
    /\ (outcome = "error" /\ err.msg = "Invalid token")
          => err.arg \notin prefixSymbols \cap modifierSymbols
    /\ (pc = "done" /\ text = <<"-", "1">>)
          => outcome = "ok" /\ KindsOf(returned) = <<PREFIX, NUMERIC>>
    /\ (pc = "done" /\ text = <<"1", " ", "-", " ", "1">>)
          => outcome = "ok" /\ KindsOf(returned) = <<NUMERIC, MODIFIER, NUMERIC>>

\* C1's case: one expression in which "-" was emitted as a PREFIX and, after
\* an operand, as a MODIFIER.
C1_Witness ==
    /\ outcome = "ok"
    /\ \E i, j \in DOMAIN returned :
          /\ returned[i].Raw = <<"-">> /\ returned[i].Kind = PREFIX
          /\ returned[j].Raw = <<"-">> /\ returned[j].Kind = MODIFIER

\* C2: a finished call returned either the complete token sequence and no
\* error, or an error and no tokens.
C2_TokensOrErrorNeverBoth ==
    (pc = "done" /\ outcome \in {"ok", "error"})
    => \/ outcome = "ok" /\ err = NoError /\ returned = ret
       \/ outcome = "error" /\ err # NoError /\ returned = <<>>

\* C3: once every token is read, the call fails with "Unbalanced parenthesis"
\* exactly when the CLAUSE tokens and the CLAUSE_CLOSE tokens differ in
\* number, so a sequence returned without error has as many of the one as of
\* the other.
C3_BalanceIsEqualCounts ==
    /\ (pc = "done" /\ outcome = "ok")
          => /\ NumberOfKind(ret, CLAUSE) = NumberOfKind(ret, CLAUSE_CLOSE)
             /\ NumberOfKind(returned, CLAUSE) = NumberOfKind(returned, CLAUSE_CLOSE)
    /\ (pc = "done" /\ outcome = "error" /\ err.msg = "Unbalanced parenthesis")
          => NumberOfKind(ret, CLAUSE) # NumberOfKind(ret, CLAUSE_CLOSE)
    /\ (pc = "done" /\ text = <<"(", "1", " ", "+", " ", "2">>)
          => outcome = "error" /\ err.msg = "Unbalanced parenthesis"

\* C3's case: "(1 + 2" was read to its end and refused as unbalanced.
C3_Witness ==
    /\ pc = "done"
    /\ text = <<"(", "1", " ", "+", " ", "2">>
    /\ Len(ret) = 4
    /\ err.msg = "Unbalanced parenthesis"

\* C4: a token read from a letter-led run that holds a period is an ACCESSOR
\* whose value is the run split on ".", and the run does not end in "." and
\* each of its segments after the first starts with an upper-case letter
\* (every other such run fails the call, so none yields a token).
C4_AccessorSegmentsUpperCase ==
    \A i \in DOMAIN ret :
        (IsLetter(Lead(ret[i])) /\ "." \in Range(ret[i].Raw))
        => LET splits == Split(ret[i].Raw, ".")
           IN  /\ ret[i].Kind = ACCESSOR
               /\ ret[i].Value = SplitsValue(splits)
               /\ ret[i].Raw[Len(ret[i].Raw)] # "."
               /\ \A j \in 2..Len(splits) :
                      splits[j] # <<>> /\ IsUpper(splits[j][1])

\* C5: a STRING or TIME token was closed by the quote character that opened
\* it, and an expression without escapes that opens a literal with a quote
\* character it never repeats fails with the unclosed-string-literal error.
C5_ClosedByMatchingQuote ==
    /\ \A i \in DOMAIN ret :
          ret[i].Kind \in {STRING_KIND, TIME}
          => ret[i].Start + 1 < ret[i].End /\ text[ret[i].End] = Lead(ret[i])
    /\ ( /\ pc = "done"
         /\ text # <<>>
         /\ "\\" \notin Range(text)
         /\ ~ isNotQuote(text[1])
         /\ \A i \in 2..Len(text) : text[i] # text[1] )
       => outcome = "error" /\ err.msg = "Unclosed string literal"

\* C6: a token read from a letter run that is "in" in any mix of cases is a
\* COMPARATOR whose value is "in" (no function of that name being registered).
C6_InAnyCase ==
    \A i \in DOMAIN ret :
        ( /\ IsLetter(Lead(ret[i]))
          /\ [j \in DOMAIN ret[i].Raw |-> ToLower(ret[i].Raw[j])] = <<"i", "n">>
          /\ ret[i].Raw \notin functions )
        => ret[i].Kind = COMPARATOR /\ ret[i].Value = StringValue(<<"i", "n">>)

\* C7: every token appended or returned has 0 <= Start < End <= the length of
\* the expression, and an expression of white space only (the empty one too)
\* ends with no error and no token.
C7_OffsetsWithinInput ==
    /\ \A i \in DOMAIN ret :
          0 <= ret[i].Start /\ ret[i].Start < ret[i].End /\ ret[i].End <= Len(text)
    /\ \A i \in DOMAIN returned :
          0 <= returned[i].Start /\ returned[i].Start < returned[i].End
          /\ returned[i].End <= Len(text)
    /\ (pc = "done" /\ \A i \in DOMAIN text : IsSpace(text[i]))
          => outcome = "ok" /\ err = NoError /\ returned = <<>>

\* C7's case: a returned token that ends before the end of an expression with
\* trailing white space.
C7_Witness ==
    /\ outcome = "ok"
    /\ text = <<"x", " ", " ">>
    /\ Len(returned) = 1
    /\ returned[1].Start = 0
    /\ returned[1].End = 2

\* C8: generate of a PREFIX node is the operator text, "(", the rendering of
\* the child one level deeper and ")", and nothing else, at every indent.
C8_PrefixRendering ==
    (pc = "generated" /\ ast.Token.Kind = PREFIX)
    => code = ast.Token.Content \o "(" \o generate(ast.Children[1], indent + 1) \o ")"

\* C9: the cursor stays within 0..length after every readCharacter and every
\* rewind, and no readCharacter is reached with nothing left to read (the two
\* reads that no canRead guards in the same statement are the hexadecimal
\* lookahead and the escaped character).
C9_CursorWithinText ==
    /\ 0 <= position /\ position <= Len(text)
    /\ pc \in {"hexPeek", "escape"} => canRead(position)

\* C10: every turn of the main loop that emits a token has moved the cursor
\* strictly forward, past the token before it, and a call that has ended has
\* ended with a token sequence or an error.
C10_ProgressAndCompletion ==
    /\ \A i \in DOMAIN ret :
          /\ ret[i].Start < ret[i].End
          /\ i > 1 => ret[i - 1].End <= ret[i].Start
    /\ pc = "done" => outcome \in {"ok", "error"}

\* Every call ends (with a result, an error or a panic): the cursor never
\* moves back past the end of the last token, so the loop runs out of input.
Terminates == <>(pc = "done")

====
